---- MODULE Spec2Model ----
(***************************************************************************)
(* A model of spekt's Test trait (src/src/test.rs): the lifecycle runner   *)
(* Test::test, which sequences before -> task -> after for one test        *)
(* invocation, together with the Arc<Self> handle it shares with the task  *)
(* and the panics (assert!(false, ..)) by which it reports failures.       *)
(* Several invocations are in flight at once; the executor interleaves     *)
(* them at their await points and may drop any of them while suspended.    *)
(***************************************************************************)
EXTENDS Integers, Sequences, FiniteSets, TLC

\* ---------------------------------------------------------------- bounds
\* number of invocations of Test::test the executor has in flight
NumInv == 2
\* the task may store any counter value 0..MaxCounter in the state
MaxCounter == 1

Invs == 1..NumInv
\* heap allocations; 0 is "no handle". An allocation is identified by the
\* invocation that makes it (two slots each), so that a released
\* allocation is never mistaken for a live one of another invocation.
Addrs == 1..(2 * NumInv)
SlotsOf(i) == {2 * i - 1, 2 * i}
Counters == 0..MaxCounter

\* ------------------------------------------------------------ data types
\* values of Self::Error (test.rs:11): any Display + Send + Sync type
Errors == {"ConnRefused", "CounterMismatch"}

\* Display for Self::Error, as format!("{}", error) renders it
\* (test.rs:30, 38, 42)
Display(e) ==
    CASE e = "ConnRefused" -> "connection refused"
      [] e = "CounterMismatch" -> "counter mismatch"
      [] OTHER -> "unknown error"

\* Result<_, Self::Error> held in a local of Test::test; Pending is a
\* local that has not been bound yet
Pending == [tag |-> "Pending", err |-> "none"]
Ok == [tag |-> "Ok", err |-> "none"]
Err(e) == [tag |-> "Err", err |-> e]
Results == {Ok} \cup {Err(e) : e \in Errors}

\* the value of Self that before() builds on success (spec scenario:
\* {counter: 0}); the counter stands for the state's interior mutability
InitialState == [counter |-> 0]

Phases == {"before", "test", "after"}

VARIABLES
    pc,             \* pc[i]: where invocation i's future is suspended
    before,         \* the local `before`  (test.rs:27)
    state,          \* the local `state`: address of the Arc, 0 if unbound/dropped
    task_state,     \* the clone moved into the task's future (test.rs:34)
    test_run,       \* the local `test_run` (test.rs:34)
    after,          \* the local `after`    (test.rs:35)
    heap,           \* Arc allocations: strong count and the TestState inside
    running,        \* running[i]: the phases of i whose future is in progress
    calls,          \* calls[i][p]: how often phase p was invoked
    reports,        \* reports[i]: the panics raised by invocation i
    overridesAfter, \* whether the implementor overrides Test::after
    testObserved,   \* counter as the task last saw it through its handle
    afterObserved   \* counter as after read it through &self

vars == <<pc, before, state, task_state, test_run, after, heap, running,
          calls, reports, overridesAfter, testObserved, afterObserved>>

\* nothing observed yet
Unseen == -1

\* ------------------------------------------------------------------- Arc
FreeCell == [rc |-> 0, counter |-> 0]

FreeAddrs(h, i) == {a \in SlotsOf(i) : h[a].rc = 0}

\* the invocation an allocation belongs to
OwnerOf(a) == (a + 1) \div 2

MinOf(S) == CHOOSE a \in S : \A b \in S : a <= b

\* Arc::new(value): a fresh allocation with strong count 1
ArcNew(h, i, value) ==
    LET a == MinOf(FreeAddrs(h, i))
    IN  [heap |-> [h EXCEPT ![a] = [rc |-> 1, counter |-> value.counter]],
         addr |-> a]

\* a wrong clone: a second handle to the same allocation whose strong
\* count is not incremented
ArcCloneNoCount(h, a) == [heap |-> h, addr |-> a]

\* a wrong clone: the state is copied into an allocation of its own
ArcCloneDeepCopy(h, a) == ArcNew(h, OwnerOf(a), [counter |-> h[a].counter])

\* Arc::clone(&state): same allocation, strong count + 1
ArcClone(h, a) == [heap |-> [h EXCEPT ![a].rc = @ + 1], addr |-> a]

\* drop(Arc): strong count - 1; the TestState is destroyed at 0
ArcDrop(h, a) ==
    IF a = 0 THEN h
    ELSE IF h[a].rc <= 1 THEN [h EXCEPT ![a] = FreeCell]
    ELSE [h EXCEPT ![a].rc = @ - 1]

\* what a read through a handle can return: the counter of a live
\* allocation, anything at all once it has been released
ReadCounter(h, a) == IF h[a].rc > 0 THEN {h[a].counter} ELSE Counters

\* a store through a handle (interior mutability); a store into released
\* memory is lost
StoreCounter(h, a, v) ==
    IF h[a].rc > 0 THEN [h EXCEPT ![a].counter = v] ELSE h

\* ------------------------------------------------------------------ Init
Init ==
    /\ pc = [i \in Invs |-> "Start"]
    /\ before = [i \in Invs |-> Pending]
    /\ state = [i \in Invs |-> 0]
    /\ task_state = [i \in Invs |-> 0]
    /\ test_run = [i \in Invs |-> Pending]
    /\ after = [i \in Invs |-> Pending]
    /\ heap = [a \in Addrs |-> FreeCell]
    /\ running = [i \in Invs |-> {}]
    /\ calls = [i \in Invs |-> [p \in Phases |-> 0]]
    /\ reports = [i \in Invs |-> <<>>]
    /\ overridesAfter \in [Invs -> BOOLEAN]
    /\ testObserved = [i \in Invs |-> Unseen]
    /\ afterObserved = [i \in Invs |-> Unseen]

\* invocation i's future ends (return, unwinding or drop): its locals are
\* dropped, the handles among them, and with the task and after futures
\* gone nothing of the invocation observes the state any more
Exit(i) ==
    /\ heap' = ArcDrop(ArcDrop(heap, task_state[i]), state[i])
    /\ state' = [state EXCEPT ![i] = 0]
    /\ task_state' = [task_state EXCEPT ![i] = 0]
    /\ testObserved' = [testObserved EXCEPT ![i] = Unseen]
    /\ afterObserved' = [afterObserved EXCEPT ![i] = Unseen]

\* a wrong panic: the panic takes the whole process down, and every other
\* invocation in flight with it
PanicAbortsAll(i, msg, line) ==
    /\ reports' = [reports EXCEPT ![i] = Append(@, [msg |-> msg, line |-> line])]
    /\ pc' = [j \in Invs |->
                IF j = i THEN "Panicked"
                ELSE IF pc[j] \in {"Returned", "Panicked", "Cancelled"} THEN pc[j]
                ELSE "Cancelled"]
    /\ Exit(i)

\* assert!(false, msg) at `line`: the panic carries msg, unwinding leaves
\* Test::test and drops its locals (the runner's Arc among them)
Panic(i, msg, line) ==
    /\ reports' = [reports EXCEPT ![i] = Append(@, [msg |-> msg, line |-> line])]
    /\ pc' = [pc EXCEPT ![i] = "Panicked"]
    /\ Exit(i)

\* the positions between two await points: the code there runs within one
\* poll of the future, which the executor does not interleave with polls
\* of other futures (test.rs:27-44 has its await points at 27, 34 and 35)
MidPoll == {"Ready", "TestDone", "AfterDone", "TestChecked"}

\* the executor may run a step of invocation i: no other invocation is in
\* the middle of a poll
Scheduled(i) == \A j \in Invs \ {i} : pc[j] \notin MidPoll

\* --------------------------------------------------------------- actions
\* first poll of the future: Self::before() is called (test.rs:27)
BeforeStart(i) ==
    /\ Scheduled(i)
    /\ pc[i] = "Start"
    /\ pc' = [pc EXCEPT ![i] = "BeforeRunning"]
    /\ running' = [running EXCEPT ![i] = @ \cup {"before"}]
    /\ calls' = [calls EXCEPT ![i]["before"] = @ + 1]
    /\ UNCHANGED <<before, state, task_state, test_run, after, heap, reports,
                   overridesAfter, testObserved, afterObserved>>

\* a wrong runner: the before-error is reported without its text
BeforeFinishNoMessage(i) ==
    /\ Scheduled(i)
    /\ pc[i] = "BeforeRunning"
    /\ \E r \in Results :
        /\ before' = [before EXCEPT ![i] = r]
        /\ running' = [running EXCEPT ![i] = @ \ {"before"}]
        /\ IF r.tag = "Err"
           THEN Panic(i, "assertion failed: false", 30)
           ELSE LET n == ArcNew(heap, i, InitialState)
                IN  /\ heap' = n.heap
                    /\ state' = [state EXCEPT ![i] = n.addr]
                    /\ pc' = [pc EXCEPT ![i] = "Ready"]
                    /\ UNCHANGED <<reports, task_state, testObserved,
                                   afterObserved>>
    /\ UNCHANGED <<test_run, after, calls, overridesAfter>>

\* before() resolves and its result is matched (test.rs:27-32): an error
\* is reported and ends the invocation, a state is wrapped in an Arc
BeforeFinish(i) ==
    /\ Scheduled(i)
    /\ pc[i] = "BeforeRunning"
    /\ \E r \in Results :
        /\ before' = [before EXCEPT ![i] = r]
        /\ running' = [running EXCEPT ![i] = @ \ {"before"}]
        /\ IF r.tag = "Err"
           THEN Panic(i, Display(r.err), 30)
           ELSE LET n == ArcNew(heap, i, InitialState)
                IN  /\ heap' = n.heap
                    /\ state' = [state EXCEPT ![i] = n.addr]
                    /\ pc' = [pc EXCEPT ![i] = "Ready"]
                    /\ UNCHANGED <<reports, task_state, testObserved,
                                   afterObserved>>
    /\ UNCHANGED <<test_run, after, calls, overridesAfter>>

\* task(state.clone()) is called and its future first polled (test.rs:34);
\* the task looks at the state it was handed
TestStart(i) ==
    /\ Scheduled(i)
    /\ pc[i] = "Ready"
    /\ LET c == ArcClone(heap, state[i])
       IN  /\ heap' = c.heap
           /\ task_state' = [task_state EXCEPT ![i] = c.addr]
           /\ \E v \in ReadCounter(c.heap, c.addr) :
                testObserved' = [testObserved EXCEPT ![i] = v]
    /\ pc' = [pc EXCEPT ![i] = "TestRunning"]
    /\ running' = [running EXCEPT ![i] = @ \cup {"test"}]
    /\ calls' = [calls EXCEPT ![i]["test"] = @ + 1]
    /\ UNCHANGED <<before, state, test_run, after, reports, overridesAfter,
                   afterObserved>>

\* the task mutates the state through its handle (interior mutability)
TaskStore(i) ==
    /\ Scheduled(i)
    /\ pc[i] = "TestRunning"
    /\ task_state[i] # 0
    /\ \E v \in Counters \ {testObserved[i]} :
        /\ heap' = StoreCounter(heap, task_state[i], v)
        /\ testObserved' = [testObserved EXCEPT ![i] = v]
    /\ UNCHANGED <<pc, before, state, task_state, test_run, after, running,
                   calls, reports, overridesAfter, afterObserved>>

\* the task drops its clone of the handle before it resolves
TaskDropHandle(i) ==
    /\ Scheduled(i)
    /\ pc[i] = "TestRunning"
    /\ task_state[i] # 0
    /\ heap' = ArcDrop(heap, task_state[i])
    /\ task_state' = [task_state EXCEPT ![i] = 0]
    /\ UNCHANGED <<pc, before, state, test_run, after, running, calls,
                   reports, overridesAfter, testObserved, afterObserved>>

\* a wrong runner: a failed task is reported at once and after is skipped
TestFinishEarlyReturn(i) ==
    /\ Scheduled(i)
    /\ pc[i] = "TestRunning"
    /\ \E r \in Results :
        /\ test_run' = [test_run EXCEPT ![i] = r]
        /\ running' = [running EXCEPT ![i] = @ \ {"test"}]
        /\ IF r.tag = "Err"
           THEN Panic(i, Display(r.err), 38)
           ELSE /\ heap' = ArcDrop(heap, task_state[i])
                /\ task_state' = [task_state EXCEPT ![i] = 0]
                /\ pc' = [pc EXCEPT ![i] = "TestDone"]
                /\ UNCHANGED <<reports, state, testObserved, afterObserved>>
    /\ UNCHANGED <<before, after, calls, overridesAfter>>

\* a wrong runner: a failed task is run again
TestFinishRetry(i) ==
    /\ Scheduled(i)
    /\ pc[i] = "TestRunning"
    /\ \E r \in Results :
        /\ test_run' = [test_run EXCEPT ![i] = r]
        /\ pc' = [pc EXCEPT ![i] = IF r.tag = "Err" THEN "Ready" ELSE "TestDone"]
    /\ heap' = ArcDrop(heap, task_state[i])
    /\ task_state' = [task_state EXCEPT ![i] = 0]
    /\ running' = [running EXCEPT ![i] = @ \ {"test"}]
    /\ UNCHANGED <<before, state, after, calls, reports, overridesAfter,
                   testObserved, afterObserved>>

\* the task's future resolves: its output is bound to test_run and the
\* future, with any handle it still holds, is dropped (test.rs:34)
TestFinish(i) ==
    /\ Scheduled(i)
    /\ pc[i] = "TestRunning"
    /\ \E r \in Results : test_run' = [test_run EXCEPT ![i] = r]
    /\ heap' = ArcDrop(heap, task_state[i])
    /\ task_state' = [task_state EXCEPT ![i] = 0]
    /\ running' = [running EXCEPT ![i] = @ \ {"test"}]
    /\ pc' = [pc EXCEPT ![i] = "TestDone"]
    /\ UNCHANGED <<before, state, after, calls, reports, overridesAfter,
                   testObserved, afterObserved>>

\* a wrong runner: after is started while the task is still in progress
AfterStartEager(i) ==
    /\ Scheduled(i)
    /\ pc[i] \in {"TestRunning", "TestDone"}
    /\ pc' = [pc EXCEPT ![i] = "AfterRunning"]
    /\ running' = [running EXCEPT ![i] = @ \cup {"after"}]
    /\ calls' = [calls EXCEPT ![i]["after"] = @ + 1]
    /\ IF overridesAfter[i]
       THEN \E v \in ReadCounter(heap, state[i]) :
              afterObserved' = [afterObserved EXCEPT ![i] = v]
       ELSE UNCHANGED afterObserved
    /\ UNCHANGED <<before, state, task_state, test_run, after, heap, reports,
                   overridesAfter, testObserved>>

\* state.after() is called and first polled (test.rs:35); an overriding
\* after reads the state through &self, the default one (test.rs:17-19)
\* does not touch it
AfterStart(i) ==
    /\ Scheduled(i)
    /\ pc[i] = "TestDone"
    /\ pc' = [pc EXCEPT ![i] = "AfterRunning"]
    /\ running' = [running EXCEPT ![i] = @ \cup {"after"}]
    /\ calls' = [calls EXCEPT ![i]["after"] = @ + 1]
    /\ IF overridesAfter[i]
       THEN \E v \in ReadCounter(heap, state[i]) :
              afterObserved' = [afterObserved EXCEPT ![i] = v]
       ELSE UNCHANGED afterObserved
    /\ UNCHANGED <<before, state, task_state, test_run, after, heap, reports,
                   overridesAfter, testObserved>>

\* the counter values after() can leave in the state: an overriding after
\* may store anything through &self (interior mutability), the default
\* body (test.rs:17-19) has no statement that could change it
AfterStores(i) ==
    IF overridesAfter[i] THEN Counters ELSE ReadCounter(heap, state[i])

\* a wrong default: after can fail although it is not overridden
AfterResultsAny(i) == Results

\* the results after() can resolve to: anything when overridden, Ok(())
\* for the default body (test.rs:17-19)
AfterResults(i) == IF overridesAfter[i] THEN Results ELSE {Ok}

\* after()'s future resolves, with whatever its body did to the state,
\* and its output is bound to `after` (test.rs:35); with the task's and
\* after's futures both gone, no phase observes the state any more
AfterFinish(i) ==
    /\ Scheduled(i)
    /\ pc[i] = "AfterRunning"
    /\ \E r \in AfterResults(i) : after' = [after EXCEPT ![i] = r]
    /\ \E v \in AfterStores(i) : heap' = StoreCounter(heap, state[i], v)
    /\ running' = [running EXCEPT ![i] = @ \ {"after"}]
    /\ pc' = [pc EXCEPT ![i] = "AfterDone"]
    /\ testObserved' = [testObserved EXCEPT ![i] = Unseen]
    /\ afterObserved' = [afterObserved EXCEPT ![i] = Unseen]
    /\ UNCHANGED <<before, state, task_state, test_run, calls, reports,
                   overridesAfter>>

\* a wrong runner: the after result is examined before the task's
CheckTestRunAfterFirst(i) ==
    /\ Scheduled(i)
    /\ pc[i] = "AfterDone"
    /\ IF after[i].tag = "Err"
       THEN Panic(i, Display(after[i].err), 42)
       ELSE IF test_run[i].tag = "Err"
       THEN Panic(i, Display(test_run[i].err), 38)
       ELSE /\ pc' = [pc EXCEPT ![i] = "TestChecked"]
            /\ UNCHANGED <<reports, heap, state, task_state, testObserved,
                           afterObserved>>
    /\ UNCHANGED <<before, test_run, after, running, calls, overridesAfter>>

\* a wrong runner: the failure is reported without leaving Test::test
CheckTestRunNoUnwind(i) ==
    /\ Scheduled(i)
    /\ pc[i] = "AfterDone"
    /\ IF test_run[i].tag = "Err"
       THEN reports' = [reports EXCEPT ![i] =
                          Append(@, [msg |-> Display(test_run[i].err), line |-> 38])]
       ELSE UNCHANGED reports
    /\ pc' = [pc EXCEPT ![i] = "TestChecked"]
    /\ UNCHANGED <<before, state, task_state, test_run, after, heap, running,
                   calls, overridesAfter, testObserved, afterObserved>>

\* a wrong runner: once the task's result is found Ok the function
\* returns, and the after result is never looked at
CheckTestRunReturnsEarly(i) ==
    /\ Scheduled(i)
    /\ pc[i] = "AfterDone"
    /\ IF test_run[i].tag = "Err"
       THEN Panic(i, Display(test_run[i].err), 38)
       ELSE /\ pc' = [pc EXCEPT ![i] = "Returned"]
            /\ Exit(i)
            /\ UNCHANGED reports
    /\ UNCHANGED <<before, test_run, after, running, calls, overridesAfter>>

\* if let Err(error) = test_run { assert!(false, ..) }  (test.rs:37-39)
CheckTestRun(i) ==
    /\ Scheduled(i)
    /\ pc[i] = "AfterDone"
    /\ IF test_run[i].tag = "Err"
       THEN Panic(i, Display(test_run[i].err), 38)
       ELSE /\ pc' = [pc EXCEPT ![i] = "TestChecked"]
            /\ UNCHANGED <<reports, heap, state, task_state, testObserved,
                           afterObserved>>
    /\ UNCHANGED <<before, test_run, after, running, calls, overridesAfter>>

\* a wrong runner: the after result is never examined
CheckAfterIgnored(i) ==
    /\ Scheduled(i)
    /\ pc[i] = "TestChecked"
    /\ pc' = [pc EXCEPT ![i] = "Returned"]
    /\ Exit(i)
    /\ UNCHANGED <<before, test_run, after, running, calls, reports,
                   overridesAfter>>

\* a wrong runner: the last check fires on every after result
CheckAfterAlways(i) ==
    /\ Scheduled(i)
    /\ pc[i] = "TestChecked"
    /\ Panic(i, Display(after[i].err), 42)
    /\ UNCHANGED <<before, test_run, after, running, calls, overridesAfter>>

\* if let Err(error) = after { assert!(false, ..) }, then the end of
\* Test::test, where the locals are dropped  (test.rs:41-44)
CheckAfter(i) ==
    /\ Scheduled(i)
    /\ pc[i] = "TestChecked"
    /\ IF after[i].tag = "Err"
       THEN Panic(i, Display(after[i].err), 42)
       ELSE /\ pc' = [pc EXCEPT ![i] = "Returned"]
            /\ Exit(i)
            /\ UNCHANGED reports
    /\ UNCHANGED <<before, test_run, after, running, calls, overridesAfter>>

\* the await points of Test::test, where its future is suspended and the
\* executor may drop it (test.rs:27, 34, 35), and the not yet polled future
AwaitPoints == {"Start", "BeforeRunning", "TestRunning", "AfterRunning"}

\* a wrong drop: abandoning the invocation also reports a failure
CancelReports(i) ==
    /\ Scheduled(i)
    /\ pc[i] \in AwaitPoints
    /\ pc' = [pc EXCEPT ![i] = "Cancelled"]
    /\ running' = [running EXCEPT ![i] = {}]
    /\ Exit(i)
    /\ reports' = [reports EXCEPT ![i] = Append(@, [msg |-> "cancelled", line |-> 22])]
    /\ UNCHANGED <<before, test_run, after, calls, overridesAfter>>

\* the executor drops the suspended future of Test::test: the phase in
\* progress is abandoned with it and the locals are dropped (test.rs:22-44)
Cancel(i) ==
    /\ Scheduled(i)
    /\ pc[i] \in AwaitPoints
    /\ pc' = [pc EXCEPT ![i] = "Cancelled"]
    /\ running' = [running EXCEPT ![i] = {}]
    /\ Exit(i)
    /\ UNCHANGED <<before, test_run, after, calls, reports, overridesAfter>>

Next ==
    \E i \in Invs :
        \/ BeforeStart(i)
        \/ BeforeFinish(i)
        \/ TestStart(i)
        \/ TaskStore(i)
        \/ TaskDropHandle(i)
        \/ TestFinish(i)
        \/ AfterStart(i)
        \/ AfterFinish(i)
        \/ CheckTestRun(i)
        \/ CheckAfter(i)
        \/ Cancel(i)

Spec == Init /\ [][Next]_vars

\* a step of invocation i that its own code takes (test.rs:27-44), as
\* opposed to the executor dropping it
Step(i) ==
    \/ BeforeStart(i)
    \/ BeforeFinish(i)
    \/ TestStart(i)
    \/ TestFinish(i)
    \/ AfterStart(i)
    \/ AfterFinish(i)
    \/ CheckTestRun(i)
    \/ CheckAfter(i)

\* the invocation's future has ended
Terminal == {"Returned", "Panicked", "Cancelled"}

\* the steps of an execution in which the executor drops no future
NextNoCancel ==
    \E i \in Invs :
        \/ BeforeStart(i)
        \/ BeforeFinish(i)
        \/ TestStart(i)
        \/ TaskStore(i)
        \/ TaskDropHandle(i)
        \/ TestFinish(i)
        \/ AfterStart(i)
        \/ AfterFinish(i)
        \/ CheckTestRun(i)
        \/ CheckAfter(i)

\* the invocations in flight are runs of one implementor of Test (calls
\* of the same Self::test), which overrides after or does not
InitOneImplementor ==
    /\ Init
    /\ \A i, j \in Invs : overridesAfter[i] = overridesAfter[j]

\* no invocation is cancelled, the executor keeps polling its futures and
\* every phase that was started resolves: as long as some invocation can
\* take a step of Test::test, one eventually does
FairSpec ==
    /\ InitOneImplementor
    /\ [][NextNoCancel]_vars
    /\ WF_vars(\E i \in Invs : Step(i))

\* the verdict of an invocation that has ended, by the place that raised
\* its panic (test.rs:30, 38, 42) or the normal return (test.rs:44)
Verdict(i) ==
    CASE pc[i] = "Returned" -> "Pass"
      [] pc[i] = "Panicked" /\ reports[i] # <<>> /\ reports[i][1].line = 30 -> "FailBefore"
      [] pc[i] = "Panicked" /\ reports[i] # <<>> /\ reports[i][1].line = 38 -> "FailTest"
      [] pc[i] = "Panicked" /\ reports[i] # <<>> /\ reports[i][1].line = 42 -> "FailAfter"
      [] OTHER -> "None"

TypeOK ==
    /\ pc \in [Invs -> {"Start", "BeforeRunning", "Ready", "TestRunning",
                        "TestDone", "AfterRunning", "AfterDone", "TestChecked",
                        "Returned", "Panicked", "Cancelled"}]
    /\ before \in [Invs -> Results \cup {Pending}]
    /\ test_run \in [Invs -> Results \cup {Pending}]
    /\ after \in [Invs -> Results \cup {Pending}]
    /\ state \in [Invs -> Addrs \cup {0}]
    /\ task_state \in [Invs -> Addrs \cup {0}]
    /\ \A a \in Addrs : heap[a].rc \in 0..2 /\ heap[a].counter \in Counters
    /\ running \in [Invs -> SUBSET Phases]
    /\ \A i \in Invs : Len(reports[i]) <= 1
    /\ overridesAfter \in [Invs -> BOOLEAN]
    /\ testObserved \in [Invs -> Counters \cup {Unseen}]
    /\ afterObserved \in [Invs -> Counters \cup {Unseen}]

\* ---------------------------------------------------------------- claims
\* the panic raised for error e at `line` of test.rs
Report(e, line) == [msg |-> Display(e), line |-> line]

\* the invocation's future has run to its end (it was not dropped)
Completed(i) == pc[i] \in {"Returned", "Panicked"}

C2_AfterIffBeforeSucceeded ==
    \A i \in Invs :
        /\ Completed(i) =>
             ((calls[i]["after"] >= 1 /\ after[i] # Pending) <=> before[i].tag = "Ok")
        /\ calls[i]["after"] >= 1 => before[i].tag = "Ok"

\* C2 witness: the task failed, and after has been invoked and resolved
C2_Witness ==
    \E i \in Invs :
        /\ pc[i] = "Panicked"
        /\ test_run[i].tag = "Err"
        /\ calls[i]["after"] = 1
        /\ after[i] = Ok

\* C3: if before returned an error, neither the task nor after is ever
\* invoked, no Arc is ever created for the invocation, and the one report
\* is the rendered before-error (raised at test.rs:30).
C3_BeforeFailureShortCircuits ==
    \A i \in Invs :
        before[i].tag = "Err" =>
            /\ calls[i]["test"] = 0 /\ calls[i]["after"] = 0
            /\ test_run[i] = Pending /\ after[i] = Pending
            /\ state[i] = 0 /\ task_state[i] = 0
            /\ \A a \in SlotsOf(i) : heap[a].rc = 0
            /\ pc[i] = "Panicked"
            /\ reports[i] = <<Report(before[i].err, 30)>>

\* C3 witness: before failed with "connection refused"
C3_Witness ==
    \E i \in Invs :
        /\ before[i] = Err("ConnRefused")
        /\ pc[i] = "Panicked"

\* C4: if before and the task succeeded and after returned an error, the
\* invocation does not pass and its one report is the rendered after-error
\* (raised at test.rs:42).
C4_AfterFailureSurfaces ==
    \A i \in Invs :
        (before[i].tag = "Ok" /\ test_run[i].tag = "Ok" /\ after[i].tag = "Err") =>
            /\ pc[i] \in {"AfterDone", "TestChecked", "Panicked"}
            /\ pc[i] = "Panicked" => reports[i] = <<Report(after[i].err, 42)>>
            /\ pc[i] # "Panicked" => reports[i] = <<>>

\* C4 witness: the after failure has been reported
C4_Witness ==
    \E i \in Invs :
        /\ pc[i] = "Panicked"
        /\ test_run[i] = Ok
        /\ after[i].tag = "Err"

\* C5: at most one phase of an invocation is in progress at any time; the
\* task is in progress only once before has resolved successfully, and
\* after only once the task's future has resolved.
C5_PhasesNeverOverlap ==
    \A i \in Invs :
        /\ Cardinality(running[i]) <= 1
        /\ "test" \in running[i] => (before[i].tag = "Ok" /\ "before" \notin running[i])
        /\ "after" \in running[i] =>
             /\ test_run[i] # Pending
             /\ task_state[i] = 0
             /\ "test" \notin running[i]
        /\ calls[i]["test"] >= 1 => before[i].tag = "Ok"
        /\ calls[i]["after"] >= 1 => test_run[i] # Pending

\* C5 witness: after is in progress
C5_Witness ==
    \E i \in Invs : running[i] = {"after"} /\ pc[i] = "AfterRunning"

\* C6: an invocation never raises more than one report; when it has run to
\* completion it has raised exactly one if some phase returned an error,
\* and none if every phase succeeded.
C6_AtMostOneReport ==
    \A i \in Invs :
        /\ Len(reports[i]) <= 1
        /\ Completed(i) =>
             (Len(reports[i]) = 1 <=>
                (before[i].tag = "Err" \/ test_run[i].tag = "Err" \/ after[i].tag = "Err"))

\* C6 witness: the task and after both failed and the invocation completed
C6_Witness ==
    \E i \in Invs :
        /\ Completed(i)
        /\ test_run[i].tag = "Err"
        /\ after[i].tag = "Err"
        /\ Len(reports[i]) = 1

\* C7: from the creation of the Arc until after has returned, the runner
\* holds a handle to a live allocation (strong count >= 1), also when the
\* task has dropped its clone.
C7_StateOutlivesAfter ==
    \A i \in Invs :
        pc[i] \in {"Ready", "TestRunning", "TestDone", "AfterRunning"} =>
            /\ state[i] # 0
            /\ heap[state[i]].rc >= 1

\* C7 witness: the task is in progress and has dropped its clone; the
\* runner's handle is the only one left and the allocation is live
C7_Witness ==
    \E i \in Invs :
        /\ pc[i] = "TestRunning"
        /\ task_state[i] = 0
        /\ state[i] # 0
        /\ heap[state[i]].rc = 1

\* C8: the task's handle and the runner's are the same allocation, an
\* invocation has at most one live allocation, and the counter an
\* overriding after reads is the one the task last left in the state.
C8_SameInstance ==
    \A i \in Invs :
        /\ task_state[i] # 0 => task_state[i] = state[i]
        /\ Cardinality({a \in SlotsOf(i) : heap[a].rc > 0}) <= 1
        /\ (overridesAfter[i] /\ pc[i] = "AfterRunning") =>
             /\ testObserved[i] # Unseen
             /\ afterObserved[i] = testObserved[i]

\* C8 witness: the task set the counter from 0 to 1 and succeeded, and
\* after, now in progress, read 1
C8_Witness ==
    \E i \in Invs :
        /\ pc[i] = "AfterRunning"
        /\ overridesAfter[i]
        /\ test_run[i] = Ok
        /\ afterObserved[i] = 1

\* C9: a step that drops the future leaves no phase in progress and raises
\* no report, and a dropped invocation takes no further step: no phase is
\* invoked, nothing is reported, no result is bound.
C9_CancellationAbandons ==
    [][\A i \in Invs :
         /\ pc'[i] = "Cancelled" =>
              /\ running'[i] = {}
              /\ reports'[i] = <<>>
              /\ state'[i] = 0 /\ task_state'[i] = 0
         /\ pc[i] = "Cancelled" =>
              /\ pc'[i] = "Cancelled"
              /\ calls'[i] = calls[i]
              /\ before'[i] = before[i]
              /\ test_run'[i] = test_run[i]
              /\ after'[i] = after[i]]_vars

\* C9 witness: an invocation whose before succeeded was dropped and after
\* was never invoked
C9_Witness ==
    \E i \in Invs :
        /\ pc[i] = "Cancelled"
        /\ before[i] = Ok
        /\ calls[i]["after"] = 0
        /\ Verdict(i) = "None"

\* C10: if before, the task and after all succeeded, nothing is reported
\* and the invocation returns normally.
C10_HappyPath ==
    \A i \in Invs :
        (before[i] = Ok /\ test_run[i] = Ok /\ after[i] = Ok) =>
            /\ reports[i] = <<>>
            /\ pc[i] \in {"AfterDone", "TestChecked", "Returned"}
            /\ Completed(i) => Verdict(i) = "Pass"

\* C10 witness: the invocation returned
C10_Witness ==
    \E i \in Invs :
        /\ pc[i] = "Returned"
        /\ before[i] = Ok /\ test_run[i] = Ok /\ after[i] = Ok

Local(i) ==
    <<pc[i], before[i], state[i], task_state[i], test_run[i], after[i],
      running[i], calls[i], reports[i], overridesAfter[i], testObserved[i],
      afterObserved[i], [a \in SlotsOf(i) |-> heap[a]]>>

\* the verdict that follows from the invocation's own phase outcomes
OwnVerdict(i) ==
    IF before[i].tag = "Err" THEN "FailBefore"
    ELSE IF test_run[i].tag = "Err" THEN "FailTest"
    ELSE IF after[i].tag = "Err" THEN "FailAfter"
    ELSE "Pass"

\* C12 (state part): while another invocation has reported a failure, an
\* invocation that is not over can take its next step whenever the
\* executor schedules it, and one that completed has run after (if its
\* before succeeded) and has the verdict of its own outcomes.
C12_UnaffectedState ==
    \A i \in Invs :
        (\E j \in Invs \ {i} : pc[j] = "Panicked") =>
            /\ (pc[i] \notin Terminal /\ Scheduled(i)) => ENABLED Step(i)
            /\ Completed(i) =>
                 /\ Verdict(i) = OwnVerdict(i)
                 /\ before[i] = Ok => (calls[i]["test"] = 1 /\ calls[i]["after"] = 1)
                 /\ Len(reports[i]) <= 1

\* C12: a step in which one invocation reports a failure changes nothing
\* that belongs to another invocation, and afterwards the other one still
\* runs and reaches the verdict of its own outcomes (the state part).
C12_OtherInvocationsUnaffected ==
    /\ []C12_UnaffectedState
    /\ [][\A j \in Invs :
            (pc[j] # "Panicked" /\ pc'[j] = "Panicked") =>
                \A i \in Invs \ {j} : Local(i)' = Local(i)]_vars

\* C12 witness: one invocation has reported a failure and another, whose
\* before succeeded, is running after
C12_Witness ==
    \E i, j \in Invs :
        /\ i # j
        /\ pc[j] = "Panicked"
        /\ pc[i] = "AfterRunning"
        /\ before[i] = Ok

\* C13 (state part): in an invocation whose implementor does not
\* override after, after resolves to Ok(()) only and does not read the
\* state, FailAfter is never the verdict, and a completed invocation
\* passes exactly when before and the task succeeded.
C13_DefaultAfterSucceeds ==
    \A i \in Invs :
        ~overridesAfter[i] =>
            /\ after[i] \in {Pending, Ok}
            /\ afterObserved[i] = Unseen
            /\ pc[i] = "AfterRunning" => heap[state[i]].counter = testObserved[i]
            /\ Verdict(i) # "FailAfter"
            /\ \A k \in DOMAIN reports[i] : reports[i][k].line # 42
            /\ Completed(i) =>
                 (Verdict(i) = "Pass" <=> (before[i] = Ok /\ test_run[i] = Ok))

\* C13: the default after always succeeds, so that FailAfter is
\* unreachable and the invocation passes exactly when before and the task
\* succeeded (the state part), and the steps in which it is called and
\* resolves leave the invocation's TestState as it was.
C13_DefaultAfterIsNoOp ==
    /\ []C13_DefaultAfterSucceeds
    /\ [][\A i \in Invs :
            (/\ ~overridesAfter[i]
             /\ pc[i] \in {"TestDone", "AfterRunning"}
             /\ pc'[i] \in {"AfterRunning", "AfterDone"}) =>
                /\ state'[i] = state[i]
                /\ \A a \in SlotsOf(i) : heap'[a] = heap[a]]_vars

\* C13 witness: an invocation with the default after has run it and
\* returned
C13_Witness ==
    \E i \in Invs :
        /\ ~overridesAfter[i]
        /\ pc[i] = "Returned"
        /\ calls[i]["after"] = 1
        /\ after[i] = Ok

\* the moves of an invocation from one position to the next: the spec's
\* Start -> BeforeRunning -> {BeforeFailed | Ready}, Ready -> TestRunning
\* -> TestDone -> AfterRunning -> AfterDone -> Verdict, where the verdict
\* is resolved in the two checks of test.rs:37-43, and the drop of the
\* future at an await point
Transitions ==
    {<<"Start", "BeforeRunning">>, <<"BeforeRunning", "Panicked">>,
     <<"BeforeRunning", "Ready">>, <<"Ready", "TestRunning">>,
     <<"TestRunning", "TestDone">>, <<"TestDone", "AfterRunning">>,
     <<"AfterRunning", "AfterDone">>, <<"AfterDone", "Panicked">>,
     <<"AfterDone", "TestChecked">>, <<"TestChecked", "Panicked">>,
     <<"TestChecked", "Returned">>}
    \cup {<<p, "Cancelled">> : p \in AwaitPoints}

\* the verdict a move into a terminal position stands for
VerdictOfMove(from, to) ==
    CASE to = "Returned" -> "Pass"
      [] to = "Panicked" /\ from = "BeforeRunning" -> "FailBefore"
      [] to = "Panicked" /\ from = "AfterDone" -> "FailTest"
      [] to = "Panicked" /\ from = "TestChecked" -> "FailAfter"
      [] OTHER -> "None"

\* C14 (state part): a completed invocation has exactly one of the four
\* verdicts, the one of its phase outcomes: Pass with no report, a failure
\* with exactly one; an invocation that is not completed has none.
C14_OneVerdict ==
    \A i \in Invs :
        /\ Completed(i) =>
             /\ Verdict(i) \in {"Pass", "FailBefore", "FailTest", "FailAfter"}
             /\ Verdict(i) = OwnVerdict(i)
             /\ Len(reports[i]) = (IF Verdict(i) = "Pass" THEN 0 ELSE 1)
        /\ ~Completed(i) => (Verdict(i) = "None" /\ reports[i] = <<>>)

\* C14: under FairSpec, where no invocation is cancelled and phases
\* resolve, every invocation eventually reaches a verdict; it moves only
\* along the listed transitions, a move into a terminal position yields
\* the verdict that move stands for, and after that the invocation takes
\* no further step.
C14_ReachesOneVerdict ==
    /\ <>(\A i \in Invs : Completed(i))
    /\ []C14_OneVerdict
    /\ [][\A i \in Invs :
            /\ pc'[i] # pc[i] =>
                 /\ <<pc[i], pc'[i]>> \in Transitions
                 /\ Verdict(i)' = VerdictOfMove(pc[i], pc'[i])
            /\ pc[i] \in Terminal => Local(i)' = Local(i)]_vars

\* C14 witness: every invocation has run to completion, one of them to
\* the verdict FailAfter
C14_Witness ==
    /\ \A i \in Invs : Completed(i)
    /\ \E i \in Invs : Verdict(i) = "FailAfter"

\* C15: once before has succeeded nothing is reported until after has
\* resolved: a task error is held in test_run while after is called and
\* in progress, and a report is only ever raised for it by the check that
\* follows after's resolution; so as long as after does not complete, the
\* failed task goes unreported.
C15_NoReportBeforeAfterCompletes ==
    /\ [](\A i \in Invs :
            (before[i] = Ok /\ after[i] = Pending) => reports[i] = <<>>)
    /\ [][\A i \in Invs :
            (before[i] = Ok /\ reports'[i] # reports[i]) =>
                /\ pc[i] \in {"AfterDone", "TestChecked"}
                /\ after[i] # Pending]_vars

\* C15 witness: the task has failed, after is in progress, and nothing
\* has been reported
C15_Witness ==
    \E i \in Invs :
        /\ pc[i] = "AfterRunning"
        /\ test_run[i].tag = "Err"
        /\ after[i] = Pending
        /\ reports[i] = <<>>
====
